---------------------------- MODULE Spec2Model ----------------------------
(***************************************************************************)
(* A model of the code-lines library (src/src/lib.rs): the Language enum   *)
(* with its parser, clone, folder resolution and line filter, the random   *)
(* selector get_random_string and the entry point get_random_line.         *)
(*                                                                         *)
(* A Rust String is a sequence of characters, each character a one-        *)
(* character TLA+ string.  The fixed text of a format! string is one       *)
(* opaque token of the sequence ("Language ", "/**/*.", "rust"), so that   *)
(* formatting is concatenation and two messages or patterns are equal      *)
(* exactly when the formatted strings are.                                 *)
(***************************************************************************)
EXTENDS Naturals, Sequences, FiniteSets

(***************************************************************************)
(* Bounds of the checked inputs.                                           *)
(***************************************************************************)
\* Leading / trailing whitespace characters put around a generated line.
MaxPad == 2
\* Generated lines have MinLineLen-Slack .. MinLineLen+Slack characters
\* before padding.
Slack == 2
\* Longest list handed to get_random_string on its own.
MaxList == 3

(***************************************************************************)
(* Strings.                                                                *)
(***************************************************************************)
\* A two-byte character (U+00E9) and the whitespace characters: str::len
\* counts bytes, str::trim strips White_Space.
WideChar == "U+00E9"
WhiteSpace == {" ", "\t"}

\* UTF-8 width of a character.
Utf8Len(c) == IF c = WideChar THEN 2 ELSE 1

\* str::len: the length in bytes.
RECURSIVE len(_)
len(s) == IF s = <<>> THEN 0 ELSE Utf8Len(Head(s)) + len(Tail(s))

\* str::trim_start / trim_end / trim.
RECURSIVE trim_start(_)
trim_start(s) ==
    IF s # <<>> /\ Head(s) \in WhiteSpace THEN trim_start(Tail(s)) ELSE s

RECURSIVE trim_end(_)
trim_end(s) ==
    IF s # <<>> /\ s[Len(s)] \in WhiteSpace
    THEN trim_end(SubSeq(s, 1, Len(s) - 1))
    ELSE s

trim(s) == trim_end(trim_start(s))

\* str::contains: pat occurs in s as a contiguous run.
contains(s, pat) ==
    \E i \in 1..(Len(s) + 1) :
        /\ i + Len(pat) - 1 <= Len(s)
        /\ SubSeq(s, i, i + Len(pat) - 1) = pat

\* char::to_lowercase on the letters the inputs use; every other character
\* is its own lower case.
LowerChar(c) ==
    CASE c = "R" -> "r" [] c = "U" -> "u" [] c = "S" -> "s" [] c = "T" -> "t"
      [] c = "J" -> "j" [] c = "A" -> "a" [] c = "V" -> "v" [] c = "C" -> "c"
      [] c = "O" -> "o" [] c = "B" -> "b" [] c = "L" -> "l" [] c = "Y" -> "y"
      [] OTHER -> c

\* str::to_lowercase.
to_lowercase(s) == [i \in 1..Len(s) |-> LowerChar(s[i])]

(***************************************************************************)
(* Results and options.                                                    *)
(***************************************************************************)
\* LinesResult<T>: Ok(v) or Err(LinesError(message)).
Ok(v) == [ok |-> TRUE, val |-> v, err |-> <<>>]
Err(m) == [ok |-> FALSE, val |-> <<>>, err |-> m]

\* Option<String>.
Some(v) == [some |-> TRUE, val |-> v]
None == [some |-> FALSE, val |-> <<>>]

(***************************************************************************)
(* Language.                                                               *)
(***************************************************************************)
Language == {"Rust", "Java"}

\* impl fmt::Display for Language.
Display(lang) == IF lang = "Rust" THEN <<"Rust">> ELSE <<"Java">>

\* impl Clone for Language.
clone(lang) == "Rust"

rust_str == <<"r", "u", "s", "t">>
java_str == <<"j", "a", "v", "a">>
import_str == <<"i", "m", "p", "o", "r", "t">>
slash_str == <<"/">>

\* Language::from without the lower-casing.
from_CaseSensitive(lang) ==
    CASE lang = rust_str -> Ok("Rust")
      [] lang = java_str -> Ok("Java")
      [] OTHER -> Err(<<"Language ">> \o lang \o <<" not supported">>)

\* Language::from.
from(lang) ==
    CASE to_lowercase(lang) = rust_str -> Ok("Rust")
      [] to_lowercase(lang) = java_str -> Ok("Java")
      [] OTHER -> Err(<<"Language ">> \o lang \o <<" not supported">>)

\* The minimum of l.len() in filter_lines: a line is kept when longer.
MinLineLen == 10

\* The closures of filter_lines: the filter predicate of each variant.
KeepRust(l) == ~contains(l, slash_str) /\ len(l) > MinLineLen
KeepJava(l) ==
    ~contains(l, slash_str) /\ len(l) > MinLineLen /\ ~contains(l, import_str)

\* Iterator::filter(keep).map(trim).collect() over the lines, in order.
RECURSIVE FilterMap(_, _)
FilterMap(lang, lines) ==
    IF lines = <<>> THEN <<>>
    ELSE LET l == Head(lines)
             keep == IF lang = "Rust" THEN KeepRust(l) ELSE KeepJava(l)
         IN  (IF keep THEN <<trim(l)>> ELSE <<>>) \o FilterMap(lang, Tail(lines))

\* filter_lines with the Java arm filtering as the Rust arm does.
filter_lines_NoImportRule(lang, lines) == FilterMap("Rust", lines)

\* Language::filter_lines.
filter_lines(lang, lines) == FilterMap(lang, lines)

(***************************************************************************)
(* The random selector.                                                    *)
(***************************************************************************)
ErrRandomString == <<"Error getting random string.">>

\* get_random_string answering an empty list with an empty string.
get_random_string_Default(lines) ==
    IF lines = <<>> THEN {Ok(<<>>)}
    ELSE {Ok(lines[i]) : i \in 1..Len(lines)}

\* get_random_string: every outcome slice::choose can produce.
get_random_string(lines) ==
    IF lines = <<>> THEN {Err(ErrRandomString)}
    ELSE {Ok(lines[i]) : i \in 1..Len(lines)}

(***************************************************************************)
(* The process environment and folder resolution.                          *)
(***************************************************************************)
\* A variable of the environment: set to a value, unset, or set to bytes
\* that are not Unicode.
EnvSet(v) == [state |-> "set", val |-> v]
EnvUnset == [state |-> "unset", val |-> <<>>]
EnvNotUnicode == [state |-> "not_unicode", val |-> <<>>]

\* env::var: Ok(value) only for a variable that is set to valid Unicode.
env_var(env, name) ==
    IF env[name].state = "set" THEN Ok(env[name].val) ELSE Err(<<>>)

\* Language::default_folder.
default_folder(lang, env) ==
    LET home == env_var(env, "HOME")
    IN  IF ~home.ok THEN None
        ELSE IF lang = "Rust"
             THEN Some(home.val \o <<"/.cargo/registry/src", "/**/*.", "rs">>)
             ELSE None

\* Language::env_var_folder.
env_var_folder(lang, env) ==
    IF lang = "Rust"
    THEN LET v == env_var(env, "RUST_LINES")
         IN  IF v.ok THEN Some(v.val \o <<"/**/*.", "rust">>) ELSE None
    ELSE LET v == env_var(env, "JAVA_LINES")
         IN  IF v.ok THEN Some(v.val \o <<"/**/*.", "java">>) ELSE None

\* Language::folder with the two tiers tried in the other order.
folder_DefaultFirst(lang, env) ==
    IF default_folder(lang, env).some THEN default_folder(lang, env)
    ELSE IF env_var_folder(lang, env).some THEN env_var_folder(lang, env)
    ELSE None

\* Language::folder.
folder(lang, env) ==
    IF env_var_folder(lang, env).some THEN env_var_folder(lang, env)
    ELSE IF default_folder(lang, env).some THEN default_folder(lang, env)
    ELSE None

\* The message of get_paths' error.
ErrGetPaths(lang) ==
    <<"Error getting file paths for ">> \o Display(lang) \o <<".">>

(***************************************************************************)
(* The file system the library reads, and the glob crate over it.          *)
(***************************************************************************)
\* Directories an environment variable may name: a source mirror, a home
\* directory, a directory without files, and a value that is no valid
\* glob pattern.
MirrorDir == <<"/srv/mirror">>
HomeDir == <<"/home/dev">>
EmptyDir == <<"/srv/empty">>
BadDir == <<"/srv/a***">>

rs_fn ==
    <<"f", "n", " ", "m", "a", "i", "n", "(", ")", " ", "{">>
rs_let ==
    <<" ", " ", " ", " ", "l", "e", "t", " ", "t", "o", "t", "a", "l", " ",
      "=", " ", "a", "d", "d", "(", "a", ",", " ", "b", ")", ";">>
rs_comment ==
    <<"/", "/", " ", "a", "d", "d", "s", " ", "t", "h", "e", " ", "n", "u",
      "m", "b", "e", "r", "s">>
rs_div ==
    <<"l", "e", "t", " ", "h", "a", "l", "f", " ", "=", " ", "t", "o", "t",
      "a", "l", " ", "/", " ", "2", ";">>
rs_pad ==
    <<" ", " ", " ", " ", " ", " ", "}", " ", " ", " ", " ", " ">>
java_import ==
    <<"i", "m", "p", "o", "r", "t", " ", "j", "a", "v", "a", ".", "u", "t",
      "i", "l", ".", "L", "i", "s", "t", ";">>
java_class ==
    <<"p", "u", "b", "l", "i", "c", " ", "c", "l", "a", "s", "s", " ", "A",
      "p", "p", " ", "{">>
java_field ==
    <<" ", " ", " ", " ", "p", "r", "i", "v", "a", "t", "e", " ", "i", "n",
      "t", " ", "i", "m", "p", "o", "r", "t", "a", "n", "t", ";">>
java_call ==
    <<" ", " ", "l", "i", "s", "t", ".", "a", "d", "d", "(", "i", "t", "e",
      "m", ")", ";", " ", " ">>
java_close ==
    <<"}">>

\* What BufRead::lines yields for one line of a file: Ok(text), or an error
\* for a line that is not UTF-8 (its bytes are consumed all the same).
TextLine(l) == [valid |-> TRUE, text |-> l]
BinaryLine == [valid |-> FALSE, text |-> <<>>]

\* An entry of the file system: a regular file, a regular file that cannot
\* be opened, a directory, or a directory glob cannot read.
RegularFile(p, c) == [path |-> p, kind |-> "file", content |-> c]
LockedFile(p) == [path |-> p, kind |-> "locked", content |-> <<>>]
Directory(p) == [path |-> p, kind |-> "dir", content |-> <<>>]
SealedDir(p) == [path |-> p, kind |-> "sealed", content |-> <<>>]

\* The entries in the order glob walks them.  A path is the directory, the
\* name and the extension; "<0xFF>" is a byte of a name that is not UTF-8.
FileSystem ==
    << RegularFile(MirrorDir \o <<"/App.", "java">>,
           <<TextLine(java_import), TextLine(java_class), BinaryLine,
             TextLine(java_field), TextLine(java_call), TextLine(java_close)>>),
       RegularFile(MirrorDir \o <<"/Empty.", "java">>,
           <<TextLine(java_close), TextLine(java_import)>>),
       LockedFile(MirrorDir \o <<"/Locked.", "java">>),
       RegularFile(MirrorDir \o <<"/gen.", "rust">>,
           <<TextLine(rs_fn), TextLine(rs_comment), TextLine(rs_pad),
             BinaryLine, TextLine(rs_let), TextLine(rs_div)>>),
       RegularFile(MirrorDir \o <<"/main.", "rs">>,
           <<TextLine(rs_fn), TextLine(rs_let)>>),
       SealedDir(MirrorDir \o <<"/sealed">>),
       Directory(MirrorDir \o <<"/vendor.", "rust">>),
       RegularFile(HomeDir \o <<"/.cargo/registry/src", "/add-1.0/src/lib.", "rs">>,
           <<TextLine(rs_comment), TextLine(rs_let), TextLine(rs_fn)>>),
       RegularFile(HomeDir \o <<"/.cargo/registry/src", "/add-1.0/<0xFF>.", "rs">>,
           <<TextLine(rs_let)>>),
       RegularFile(HomeDir \o <<"/.cargo/registry/src", "/add-1.0/short.", "rs">>,
           <<TextLine(java_close), TextLine(rs_comment)>>) >>

\* Whether s starts with prefix.
StartsWith(s, prefix) ==
    Len(s) >= Len(prefix) /\ SubSeq(s, 1, Len(prefix)) = prefix

\* Pattern::new of the glob crate: a "**" that is not a whole component is
\* a pattern error.
PatternIsValid(pattern) == ~StartsWith(pattern, BadDir)

\* The directory a pattern "<dir>/**/*.<ext>" searches, and its extension.
PatternBase(pattern) == SubSeq(pattern, 1, Len(pattern) - 2)
PatternExt(pattern) == pattern[Len(pattern)]

\* The items glob's iterator yields for a pattern: Ok(path) for an entry
\* under the directory whose name ends in the extension (a file or a
\* directory alike), an error for a directory it cannot read.
GlobItems(pattern) ==
    LET Under(e) == StartsWith(e.path, PatternBase(pattern))
        Hit(e) ==
            \/ e.kind = "sealed" /\ Under(e)
            \/ e.kind # "sealed" /\ Under(e) /\ Len(e.path) > Len(PatternBase(pattern))
               /\ e.path[Len(e.path)] = PatternExt(pattern)
        Item(e) == IF e.kind = "sealed" THEN Err(<<"Permission denied">>)
                   ELSE Ok(e.path)
        hits == SelectSeq(FileSystem, Hit)
    IN  [i \in 1..Len(hits) |-> Item(hits[i])]

\* glob::glob: a pattern error, or the iterator's items.
glob(pattern) ==
    IF PatternIsValid(pattern) THEN Ok(GlobItems(pattern))
    ELSE Err(<<"Pattern syntax error">>)

\* Path::display().to_string(): a byte that is not UTF-8 becomes U+FFFD.
display(path) ==
    [i \in 1..Len(path) |->
        IF path[i] = "/add-1.0/<0xFF>." THEN "/add-1.0/U+FFFD." ELSE path[i]]

\* .filter_map(Result::ok).map(|p| p.display().to_string()).collect()
RECURSIVE CollectPaths(_)
CollectPaths(items) ==
    IF items = <<>> THEN <<>>
    ELSE (IF Head(items).ok THEN <<display(Head(items).val)>> ELSE <<>>)
         \o CollectPaths(Tail(items))

\* File::open on a path string: the outcomes the platform can produce.  A
\* directory opens on Unix and is refused on Windows.
FileOpen(path) ==
    LET found == SelectSeq(FileSystem, LAMBDA e : e.path = path)
    IN  IF found = <<>>
        THEN {Err(<<"No such file or directory (os error 2)">>)}
        ELSE CASE found[1].kind = "file" -> {Ok(found[1])}
               [] found[1].kind = "dir" ->
                    {Ok(found[1]), Err(<<"Access is denied. (os error 5)">>)}
               [] OTHER -> {Err(<<"Permission denied (os error 13)">>)}

(***************************************************************************)
(* State.                                                                  *)
(***************************************************************************)
VARIABLES
    pc,         \* where the current call of get_random_line is
    config,     \* the LineConfig of the call
    env,        \* the environment variables RUST_LINES, JAVA_LINES, HOME
    folderOpt,  \* what Language::folder returned
    paths,      \* the Vec<String> get_paths collected
    path,       \* the path get_random_file_path chose
    file,       \* the entry the open File reads
    pos,        \* the next line of the file BufRead::lines will yield
    lines,      \* the lines get_lines_from_file has collected
    filtered,   \* what filter_lines returned
    result,     \* the call's LinesResult<String>
    steps,      \* the steps the call has completed, in order
    prev,       \* the last failed call: its language, step and message
    uFn,        \* the function applied on its own
    uLang,      \* its Language argument
    uText,      \* its &str argument
    uLines,     \* its Vec<String> argument
    uDone,      \* whether it has returned
    uRet        \* what it returned

callVars == <<pc, config, env, folderOpt, paths, path, file, pos, lines,
              filtered, result, steps, prev>>
unitVars == <<uFn, uLang, uText, uLines, uDone, uRet>>
vars == <<pc, config, env, folderOpt, paths, path, file, pos, lines,
          filtered, result, steps, prev, uFn, uLang, uText, uLines, uDone,
          uRet>>

NoResult == [ok |-> FALSE, val |-> <<>>, err |-> <<>>]
NoFile == [path |-> <<>>, kind |-> "none", content |-> <<>>]
NoPrev == [failed |-> FALSE, language |-> "Rust", step |-> "none", err |-> <<>>]

\* The values an environment variable takes.
LinesValues ==
    {EnvUnset, EnvNotUnicode, EnvSet(MirrorDir), EnvSet(EmptyDir), EnvSet(BadDir)}
HomeValues == {EnvUnset, EnvSet(HomeDir), EnvSet(EmptyDir)}
Environments ==
    [RUST_LINES : LinesValues, JAVA_LINES : LinesValues, HOME : HomeValues]

CallInit ==
    /\ pc = "idle"
    /\ config = [language |-> "Rust"]
    /\ env = [RUST_LINES |-> EnvUnset, JAVA_LINES |-> EnvUnset, HOME |-> EnvUnset]
    /\ folderOpt = None
    /\ paths = <<>>
    /\ path = <<>>
    /\ file = NoFile
    /\ pos = 1
    /\ lines = <<>>
    /\ filtered = <<>>
    /\ result = NoResult
    /\ steps = <<>>
    /\ prev = NoPrev

UnitIdle ==
    /\ uFn = "none"
    /\ uLang = "Rust"
    /\ uText = <<>>
    /\ uLines = <<>>
    /\ uDone = FALSE
    /\ uRet = <<>>

(***************************************************************************)
(* get_random_line, step by step.                                          *)
(***************************************************************************)
\* The step a call failed in is the one it completed last.
LastStep == IF steps = <<>> THEN "none" ELSE steps[Len(steps)]

\* The caller builds a LineConfig and calls get_random_line.
Call(lang, e) ==
    /\ pc \in {"idle", "done"}
    /\ pc' = "resolve"
    /\ config' = [language |-> lang]
    /\ env' = e
    /\ folderOpt' = None
    /\ paths' = <<>>
    /\ path' = <<>>
    /\ file' = NoFile
    /\ pos' = 1
    /\ lines' = <<>>
    /\ filtered' = <<>>
    /\ result' = NoResult
    /\ steps' = <<>>
    /\ prev' = IF pc = "done" /\ ~result.ok
               THEN [failed |-> TRUE, language |-> config.language,
                     step |-> LastStep, err |-> result.err]
               ELSE prev
    /\ UNCHANGED unitVars

\* get_paths: self.folder(); without a folder the call fails.
ResolveFolder ==
    /\ pc = "resolve"
    /\ folderOpt' = folder(config.language, env)
    /\ steps' = Append(steps, "resolve")
    /\ IF folderOpt'.some
       THEN /\ pc' = "enumerate"
            /\ UNCHANGED result
       ELSE /\ pc' = "done"
            /\ result' = Err(ErrGetPaths(config.language))
    /\ UNCHANGED <<config, env, paths, path, file, pos, lines, filtered, prev>>
    /\ UNCHANGED unitVars

\* get_paths: glob(folder) and the collection of its items.
Enumerate ==
    /\ pc = "enumerate"
    /\ steps' = Append(steps, "enumerate")
    /\ IF glob(folderOpt.val).ok
       THEN /\ paths' = CollectPaths(glob(folderOpt.val).val)
            /\ pc' = "choose_path"
            /\ UNCHANGED result
       ELSE /\ pc' = "done"
            /\ result' = Err(ErrGetPaths(config.language))
            /\ UNCHANGED paths
    /\ UNCHANGED <<config, env, folderOpt, path, file, pos, lines, filtered, prev>>
    /\ UNCHANGED unitVars

\* get_random_file_path: get_random_string over the paths; its error is
\* the call's.
ChoosePath ==
    /\ pc = "choose_path"
    /\ steps' = Append(steps, "choose_path")
    /\ \E r \in get_random_string(paths) :
          IF r.ok
          THEN /\ path' = r.val
               /\ pc' = "open"
               /\ UNCHANGED result
          ELSE /\ pc' = "done"
               /\ result' = r
               /\ UNCHANGED path
    /\ UNCHANGED <<config, env, folderOpt, paths, file, pos, lines, filtered, prev>>
    /\ UNCHANGED unitVars

\* File::open(path): Err(e) becomes LinesError(e.to_string()).
OpenFile ==
    /\ pc = "open"
    /\ steps' = Append(steps, "open")
    /\ \E o \in FileOpen(path) :
          IF o.ok
          THEN /\ file' = o.val
               /\ pc' = "read"
               /\ UNCHANGED result
          ELSE /\ pc' = "done"
               /\ result' = Err(o.err)
               /\ UNCHANGED file
    /\ UNCHANGED <<config, env, folderOpt, paths, path, pos, lines, filtered, prev>>
    /\ UNCHANGED unitVars

\* get_lines_from_file: lines() yields the next line; filter_map(Result::ok)
\* keeps it when it is text and drops it when it is not UTF-8.
ReadLine ==
    /\ pc = "read"
    /\ file.kind = "file"
    /\ pos <= Len(file.content)
    /\ pos' = pos + 1
    /\ lines' = IF file.content[pos].valid
                THEN Append(lines, file.content[pos].text)
                ELSE lines
    /\ UNCHANGED <<pc, config, env, folderOpt, paths, path, file, filtered,
                   result, steps, prev>>
    /\ UNCHANGED unitVars

\* get_lines_from_file on a directory: every read fails (EISDIR), lines()
\* yields that error, filter_map(Result::ok) drops it and asks for the next
\* item, which is the same error again.
ReadError ==
    /\ pc = "read"
    /\ file.kind = "dir"
    /\ UNCHANGED callVars
    /\ UNCHANGED unitVars

\* get_lines_from_file: lines() is exhausted and collect() returns.
ReadEof ==
    /\ pc = "read"
    /\ file.kind = "file"
    /\ pos > Len(file.content)
    /\ pc' = "filter"
    /\ steps' = Append(steps, "read")
    /\ UNCHANGED <<config, env, folderOpt, paths, path, file, pos, lines,
                   filtered, result, prev>>
    /\ UNCHANGED unitVars

\* FilterStep filtering with a clone of the language.
FilterStep_Cloned ==
    /\ pc = "filter"
    /\ filtered' = filter_lines(clone(config.language), lines)
    /\ steps' = Append(steps, "filter")
    /\ pc' = "choose_line"
    /\ UNCHANGED <<config, env, folderOpt, paths, path, file, pos, lines,
                   result, prev>>
    /\ UNCHANGED unitVars

\* config.language.filter_lines(get_lines_from_file(file))
FilterStep ==
    /\ pc = "filter"
    /\ filtered' = filter_lines(config.language, lines)
    /\ steps' = Append(steps, "filter")
    /\ pc' = "choose_line"
    /\ UNCHANGED <<config, env, folderOpt, paths, path, file, pos, lines,
                   result, prev>>
    /\ UNCHANGED unitVars

\* get_random_string over the filtered lines: the call's result.
ChooseLine ==
    /\ pc = "choose_line"
    /\ steps' = Append(steps, "choose_line")
    /\ result' \in get_random_string(filtered)
    /\ pc' = "done"
    /\ UNCHANGED <<config, env, folderOpt, paths, path, file, pos, lines,
                   filtered, prev>>
    /\ UNCHANGED unitVars

\* The steps of a call in progress.
Step ==
    \/ ResolveFolder
    \/ Enumerate
    \/ ChoosePath
    \/ OpenFile
    \/ ReadLine
    \/ ReadError
    \/ ReadEof
    \/ FilterStep
    \/ ChooseLine

Init == CallInit /\ UnitIdle

Next ==
    \/ \E lang \in Language, e \in Environments : Call(lang, e)
    \/ Step

Spec == Init /\ [][Next]_vars

\* A call that has begun keeps taking steps: the code runs to its return.
FairSpec == Init /\ [][Next]_vars /\ WF_vars(Step)

(***************************************************************************)
(* The functions on their own: an input is drawn, the function applied.    *)
(***************************************************************************)
\* The lines of tests::get_lines.
line_import ==
    <<"i", "m", "p", "o", "r", "t", " ", "t", "h", "i", "n", "g", " ", "t",
      "h", "i", "n", "g", " ", "t", "h", "i", "n", "g">>
line_doc ==
    <<"/", "/", "/">>
line_short ==
    <<"l", "e", "t", " ", "t", "h", "i", "n", "g">>
line_long ==
    <<" ", " ", " ", " ", " ", " ", " ", " ", " ", "l", "e", "t", " ", "t",
      "h", "i", "n", "g", " ", "=", " ", "d", "o", "_", "t", "h", "i", "s",
      "_", "l", "o", "n", "g", "_", "t", "h", "i", "n", "g", "(", "h", "e",
      "l", "l", "o", ")", " ", " ">>
get_lines == <<line_import, line_doc, line_short, line_long>>

\* n copies of the character c.
Fill(c, n) == [i \in 1..n |-> c]

\* What a generated line is built around: nothing, a slash, the word
\* import, that word broken by a space, a two-byte character.
Mids ==
    {<<>>, slash_str, import_str, <<"i", "m", "p", " ", "o", "r", "t">>,
     <<WideChar>>}

\* A line of n characters: mid and a run of c before or after it.
Body(mid, n, c, atEnd) ==
    IF atEnd THEN Fill(c, n - Len(mid)) \o mid ELSE mid \o Fill(c, n - Len(mid))

\* The generated lines: bodies of about MinLineLen characters, filled with
\* a letter or with blanks, between up to MaxPad blanks and MaxPad tabs.
ProbeLines ==
    {Fill(" ", l) \o Body(mid, n, c, atEnd) \o Fill("\t", r) :
        l \in 0..MaxPad, r \in 0..MaxPad, mid \in Mids,
        n \in (MinLineLen - Slack)..(MinLineLen + Slack),
        c \in {"x", " "}, atEnd \in BOOLEAN}

\* The lists handed to filter_lines: a generated line at any place of the
\* empty list or of the tests' list, and those two lists themselves.
InsertAt(list, k, l) ==
    SubSeq(list, 1, k) \o <<l>> \o SubSeq(list, k + 1, Len(list))
FilterInputs ==
    {<<>>, get_lines}
    \cup {<<l>> : l \in ProbeLines}
    \cup {InsertAt(get_lines, k, l) : k \in 0..Len(get_lines), l \in ProbeLines}

\* The strings handed to Language::from: every mix of upper and lower case
\* of the two names and of near misses.
UpperChar(c) ==
    CASE c = "r" -> "R" [] c = "u" -> "U" [] c = "s" -> "S" [] c = "t" -> "T"
      [] c = "j" -> "J" [] c = "a" -> "A" [] c = "v" -> "V" [] c = "c" -> "C"
      [] c = "o" -> "O" [] c = "b" -> "B" [] c = "l" -> "L" [] c = "y" -> "Y"
      [] OTHER -> c
Words ==
    {rust_str, java_str, <<>>, <<"r", "u", "s">>, <<"a", "v", "a">>,
     <<"r", "u", "s", "t", "y">>, <<" ", "r", "u", "s", "t">>,
     <<"j", "a", "v", "a", " ">>, <<"c", "o", "b", "o", "l">>,
     <<"j", "u", "s", "t">>, <<"r", "a", "v", "a">>}
FromInputs ==
    UNION {{[i \in 1..Len(w) |-> IF i \in up THEN UpperChar(w[i]) ELSE w[i]] :
               up \in SUBSET (1..Len(w))} : w \in Words}

\* The lists handed to get_random_string: up to MaxList of the tests' items.
item_random == <<"r", "a", "n", "d", "o", "m">>
Items == {item_random, <<"o">>, <<"a">>}
ChooseInputs == UNION {[1..n -> Items] : n \in 0..MaxList}

UnitInit ==
    /\ uDone = FALSE
    /\ uRet = <<>>
    /\ \/ uFn = "from" /\ uText \in FromInputs /\ uLang = "Rust" /\ uLines = <<>>
       \/ uFn = "clone" /\ uLang \in Language /\ uText = <<>> /\ uLines = <<>>
       \/ uFn = "filter_lines" /\ uLang \in Language /\ uText = <<>>
          /\ uLines \in FilterInputs
       \/ uFn = "get_random_string" /\ uLang = "Rust" /\ uText = <<>>
          /\ uLines \in ChooseInputs

ApplyFrom ==
    /\ uFn = "from" /\ ~uDone
    /\ uRet' = from(uText)
    /\ uDone' = TRUE
    /\ UNCHANGED <<uFn, uLang, uText, uLines>>
    /\ UNCHANGED callVars

ApplyClone ==
    /\ uFn = "clone" /\ ~uDone
    /\ uRet' = clone(uLang)
    /\ uDone' = TRUE
    /\ UNCHANGED <<uFn, uLang, uText, uLines>>
    /\ UNCHANGED callVars

ApplyFilterLines ==
    /\ uFn = "filter_lines" /\ ~uDone
    /\ uRet' = filter_lines(uLang, uLines)
    /\ uDone' = TRUE
    /\ UNCHANGED <<uFn, uLang, uText, uLines>>
    /\ UNCHANGED callVars

ApplyGetRandomString ==
    /\ uFn = "get_random_string" /\ ~uDone
    /\ uRet' \in get_random_string(uLines)
    /\ uDone' = TRUE
    /\ UNCHANGED <<uFn, uLang, uText, uLines>>
    /\ UNCHANGED callVars

UnitNext ==
    \/ ApplyFrom
    \/ ApplyClone
    \/ ApplyFilterLines
    \/ ApplyGetRandomString

UnitStart == CallInit /\ UnitInit

UnitSpec == UnitStart /\ [][UnitNext]_vars

(***************************************************************************)
(* Properties.                                                             *)
(***************************************************************************)
Range(seq) == {seq[i] : i \in 1..Len(seq)}

\* Whether sub is seq with some elements left out, the rest in order.
RECURSIVE IsSubSeq(_, _)
IsSubSeq(sub, seq) ==
    IF sub = <<>> THEN TRUE
    ELSE IF seq = <<>> THEN FALSE
    ELSE IF Head(sub) = Head(seq) THEN IsSubSeq(Tail(sub), Tail(seq))
    ELSE IsSubSeq(sub, Tail(seq))

\* The override variable of a language and the extension of its sources.
OverrideVar(lang) == IF lang = "Rust" THEN "RUST_LINES" ELSE "JAVA_LINES"
SourceExt(lang) == IF lang = "Rust" THEN "rs" ELSE "java"

\* text is name with any of its letters in upper case.
IsCaseVariant(text, name) ==
    /\ Len(text) = Len(name)
    /\ \A i \in 1..Len(name) : text[i] \in {name[i], UpperChar(name[i])}

FilterReturned == uFn = "filter_lines" /\ uDone

\* C1: every line filter_lines returns has, trimmed, a length (str::len)
\* above 10 and no '/', and for Java no "import".
C1_FilterFloor ==
    FilterReturned =>
        \A i \in 1..Len(uRet) :
            /\ len(trim(uRet[i])) > MinLineLen
            /\ ~contains(uRet[i], slash_str)
            /\ (uLang = "Java" => ~contains(uRet[i], import_str))

\* C2: with the language's override variable set to V, the resolved
\* pattern is V/**/*.rs for Rust and V/**/*.java for Java.
C2_OverridePattern ==
    (Len(steps) >= 1 /\ env[OverrideVar(config.language)].state = "set") =>
        folderOpt =
            Some(env[OverrideVar(config.language)].val
                 \o <<"/**/*.", SourceExt(config.language)>>)

\* C3: resolution takes the override when it is set, whatever HOME is;
\* else, for Rust with HOME set, <home>/.cargo/registry/src/**/*.rs; else
\* the call fails after the resolution alone, nothing being enumerated.
C3_Precedence ==
    Len(steps) >= 1 =>
        LET ov == env[OverrideVar(config.language)]
        IN  IF ov.state = "set"
            THEN /\ folderOpt.some
                 /\ StartsWith(folderOpt.val, ov.val)
                 /\ Len(folderOpt.val) = Len(ov.val) + 2
                 /\ folderOpt.val[Len(ov.val) + 1] = "/**/*."
            ELSE IF config.language = "Rust" /\ env.HOME.state = "set"
            THEN folderOpt =
                    Some(env.HOME.val \o <<"/.cargo/registry/src", "/**/*.", "rs">>)
            ELSE /\ folderOpt = None
                 /\ pc = "done"
                 /\ ~result.ok
                 /\ result.err = <<"Error getting file paths for ">>
                                    \o Display(config.language) \o <<".">>
                 /\ steps = <<"resolve">>
                 /\ paths = <<>>

\* Java without JAVA_LINES fails in the resolution although HOME is set.
C3_Witness ==
    /\ pc = "done"
    /\ config.language = "Java"
    /\ env.JAVA_LINES.state # "set"
    /\ env.HOME.state = "set"
    /\ steps = <<"resolve">>
    /\ ~result.ok

\* C4: a failed call's error tells the step that failed: an empty file
\* list fails with an error that names the language, and two calls for
\* the same language that fail in different steps return different errors.
C4_ErrorKinds ==
    (pc = "done" /\ ~result.ok) =>
        /\ (LastStep = "choose_path" =>
               contains(result.err, Display(config.language)))
        /\ (prev.failed /\ prev.language = config.language
              /\ prev.step # LastStep => prev.err # result.err)

\* C5: get_random_string fails exactly on the empty list, returns an
\* element of a list that is not empty, and so the one element of a list
\* of one.
C5_RandomSelector ==
    (uFn = "get_random_string" /\ uDone) =>
        /\ (~uRet.ok <=> uLines = <<>>)
        /\ (uRet.ok => uRet.val \in Range(uLines))
        /\ (Len(uLines) = 1 => uRet.ok /\ uRet.val = uLines[1])

C5_Witness ==
    /\ uFn = "get_random_string"
    /\ uDone
    /\ uLines = <<item_random>>
    /\ uRet.ok
    /\ uRet.val = item_random

\* C6: Language::from yields Rust for every case variant of "rust", Java
\* for every case variant of "java", and for any other string an error
\* that carries the string as it was given.
C6_ParseTotal ==
    (uFn = "from" /\ uDone) =>
        IF IsCaseVariant(uText, rust_str) THEN uRet.ok /\ uRet.val = "Rust"
        ELSE IF IsCaseVariant(uText, java_str) THEN uRet.ok /\ uRet.val = "Java"
        ELSE /\ ~uRet.ok
             /\ uRet.err = <<"Language ">> \o uText \o <<" not supported">>

C6_Witness ==
    /\ uFn = "from"
    /\ uDone
    /\ uText = <<"r", "U", "S", "T">>
    /\ uRet.ok
    /\ uRet.val = "Rust"

\* C7: the Java output is the Rust output without the lines that contain
\* "import"; either output holds trimmed input lines in their input order;
\* a line without '/', of a length above 10, that contains "import"
\* is kept for Rust and dropped for Java; the tests' list gives 2 lines
\* for Rust and 1 for Java.
C7_JavaIsRustMinusImport ==
    FilterReturned =>
        /\ (uLang = "Java" =>
               uRet = SelectSeq(filter_lines("Rust", uLines),
                                LAMBDA l : ~contains(l, import_str)))
        /\ IsSubSeq(uRet, [i \in 1..Len(uLines) |-> trim(uLines[i])])
        /\ \A i \in 1..Len(uLines) :
              (/\ ~contains(uLines[i], slash_str)
               /\ len(uLines[i]) > MinLineLen
               /\ contains(uLines[i], import_str))
              => (trim(uLines[i]) \in Range(uRet) <=> uLang = "Rust")
        /\ (uLines = get_lines =>
               /\ Len(uRet) = (IF uLang = "Rust" THEN 2 ELSE 1)
               /\ uRet[Len(uRet)] = trim(line_long))

C7_Witness ==
    /\ FilterReturned
    /\ uLang = "Java"
    /\ \E i \in 1..Len(uLines) :
          /\ contains(uLines[i], import_str)
          /\ trim(uLines[i]) \in Range(filter_lines("Rust", uLines))
    /\ Len(uRet) >= 1

\* The steps of get_random_line in the order of the code.
StepOrder ==
    <<"resolve", "enumerate", "choose_path", "open", "read", "filter",
      "choose_line">>

\* The steps done are the first steps of the order, each once; a file is
\* open only after the open step; the call has a result exactly when it
\* is over.
C8_StepsInOrder ==
    /\ Len(steps) <= Len(StepOrder)
    /\ steps = SubSeq(StepOrder, 1, Len(steps))
    /\ (file # NoFile => Len(steps) >= 4)
    /\ (pc = "done" <=> result # NoResult)

\* Once a call is over nothing happens but a new call, and the result of
\* a call is set once.
C8_NoStepAfterEnd ==
    /\ (pc = "done" => pc' = "resolve")
    /\ (result # NoResult /\ pc' # "resolve" => result' = result)

\* C8: a call takes its steps in order, each at most once, stops at the
\* first failure, opens at most one file and none after a failure, and
\* ends with one result.
C8_RunsToOneOutcome ==
    /\ []C8_StepsInOrder
    /\ [][C8_NoStepAfterEnd]_vars
    /\ (pc = "resolve" ~> pc = "done")

\* C9: the line a call returns is a line filter_lines gives, for the
\* call's language, from the text lines of the file that was opened, and
\* that file is in the list enumerated from the call's pattern.
C9_LineFromListedFile ==
    (pc = "done" /\ result.ok) =>
        LET f == folder(config.language, env)
            listed == CollectPaths(GlobItems(f.val))
            Text(c) == LET valid == SelectSeq(c, LAMBDA x : x.valid)
                       IN  [i \in 1..Len(valid) |-> valid[i].text]
        IN  /\ f.some
            /\ path \in Range(listed)
            /\ \E i \in 1..Len(FileSystem) :
                  /\ FileSystem[i].path = path
                  /\ file = FileSystem[i]
                  /\ result.val \in
                        Range(filter_lines(config.language,
                                           Text(FileSystem[i].content)))

C9_Witness ==
    /\ pc = "done"
    /\ result.ok
    /\ config.language = "Java"
    /\ Len(lines) > Len(filtered)

\* C10: a clone of a Language value equals the value.
C10_ClonePreserves ==
    (uFn = "clone" /\ uDone) => uRet = uLang

=============================================================================
